---- MODULE Spec2Model ----
(***************************************************************************)
(* A model of the fast_api_bootstrap program: environment-driven           *)
(* configuration (MainConfig, FastApiConfig), the entry point, and the     *)
(* lifespan-managed background tasks running on one cooperative event loop.*)
(*                                                                         *)
(* Python strings are sequences of code points, so that lower() and        *)
(* upper() are computed as Python computes them.                           *)
(***************************************************************************)
EXTENDS Integers, Sequences, FiniteSets

VARIABLES
    env,              \* os.environ: PRODUCTION, FASTAPI_LOG_LEVEL, other keys
    files,            \* the .env file, if any, of each directory
    cwd,              \* the working directory of the process
    background_tasks, \* main.py: the registered tasks, a sequence of task kinds
    ppc,              \* position of the process in main.py / main_setup.py
    exitCode,         \* process exit code, -1 while the process is alive
    main_config,      \* result of MainConfig()
    api_config,       \* result of FastApiConfig() (FastApiSetup._config)
    reload,           \* uvicorn.run(reload=...)
    workers,          \* uvicorn.run(workers=...)
    hpc,              \* position of the host (uvicorn/starlette lifespan driver)
    hmode,            \* how the host leaves the lifespan's yield
    lpc,              \* position of FastAPIApplication.lifespan
    li,               \* loop index of the comprehension / of the cancel loop
    task_handles,     \* lifespan's task_handles: handle k runs background_tasks[k]
    tstate,           \* state of each asyncio task
    started,          \* whether the task's run body has begun executing
    mustCancel,       \* a CancelledError is pending delivery to the task
    ready,            \* the event loop's FIFO ready queue (0 = the lifespan)
    cancelCalls,      \* the handles on which cancel() has been called
    log               \* the records emitted on the lifecycle manager's logger

vars == <<env, files, cwd, background_tasks, ppc, exitCode, main_config, api_config, reload,
          workers, hpc, hmode, lpc, li, task_handles, tstate, started,
          mustCancel, ready, cancelCalls, log>>

cfgVars == <<env, files, cwd, background_tasks, ppc, exitCode, main_config, api_config,
             reload, workers>>

taskVars == <<tstate, started, mustCancel, ready, cancelCalls>>

\* Largest number of registered background tasks explored.
MaxTasks == 2

(***************************************************************************)
(* Strings: a Python str is the sequence of its Unicode code points.       *)
(* str.lower() and str.upper() are the full Unicode case conversions: they *)
(* are not limited to A-Z / a-z, a character may convert to several (U+0130*)
(* lowers to "i" + U+0307, U+00DF uppers to "SS"), and the lowering of     *)
(* U+03A3 depends on its neighbours (final sigma). The tables are those of *)
(* Unicode 15.1, the version of Python 3.13.                               *)
(***************************************************************************)
RECURSIVE concat(_)
\* The concatenation of a sequence of strings.
concat(ss) == IF ss = <<>> THEN <<>> ELSE Head(ss) \o concat(Tail(ss))

\* c is one of lo, lo+step, ..., hi
in_range(c, r) == r[1] <= c /\ c <= r[2] /\ (c - r[1]) % r[3] = 0

\* The characters above ASCII whose lowercase is one other character:
\* <<first, last, step, offset>>.
LowerRanges ==
    {<<192, 214, 1, 32>>, <<216, 222, 1, 32>>, <<256, 302, 2, 1>>, <<306, 310,
     2, 1>>, <<313, 327, 2, 1>>, <<330, 374, 2, 1>>, <<376, 376, 1, -121>>,
     <<377, 381, 2, 1>>, <<385, 385, 1, 210>>, <<386, 388, 2, 1>>, <<390, 390,
     1, 206>>, <<391, 391, 1, 1>>, <<393, 394, 1, 205>>, <<395, 395, 1, 1>>,
     <<398, 398, 1, 79>>, <<399, 399, 1, 202>>, <<400, 400, 1, 203>>, <<401,
     401, 1, 1>>, <<403, 403, 1, 205>>, <<404, 404, 1, 207>>, <<406, 406, 1,
     211>>, <<407, 407, 1, 209>>, <<408, 408, 1, 1>>, <<412, 412, 1, 211>>,
     <<413, 413, 1, 213>>, <<415, 415, 1, 214>>, <<416, 420, 2, 1>>, <<422,
     422, 1, 218>>, <<423, 423, 1, 1>>, <<425, 425, 1, 218>>, <<428, 428, 1,
     1>>, <<430, 430, 1, 218>>, <<431, 431, 1, 1>>, <<433, 434, 1, 217>>,
     <<435, 437, 2, 1>>, <<439, 439, 1, 219>>, <<440, 440, 1, 1>>, <<444, 444,
     1, 1>>, <<452, 452, 1, 2>>, <<453, 453, 1, 1>>, <<455, 455, 1, 2>>,
     <<456, 456, 1, 1>>, <<458, 458, 1, 2>>, <<459, 475, 2, 1>>, <<478, 494,
     2, 1>>, <<497, 497, 1, 2>>, <<498, 500, 2, 1>>, <<502, 502, 1, -97>>,
     <<503, 503, 1, -56>>, <<504, 542, 2, 1>>, <<544, 544, 1, -130>>, <<546,
     562, 2, 1>>, <<570, 570, 1, 10795>>, <<571, 571, 1, 1>>, <<573, 573, 1,
     -163>>, <<574, 574, 1, 10792>>, <<577, 577, 1, 1>>, <<579, 579, 1,
     -195>>, <<580, 580, 1, 69>>, <<581, 581, 1, 71>>, <<582, 590, 2, 1>>,
     <<880, 882, 2, 1>>, <<886, 886, 1, 1>>, <<895, 895, 1, 116>>, <<902, 902,
     1, 38>>, <<904, 906, 1, 37>>, <<908, 908, 1, 64>>, <<910, 911, 1, 63>>,
     <<913, 929, 1, 32>>, <<931, 939, 1, 32>>, <<975, 975, 1, 8>>, <<984,
     1006, 2, 1>>, <<1012, 1012, 1, -60>>, <<1015, 1015, 1, 1>>, <<1017, 1017,
     1, -7>>, <<1018, 1018, 1, 1>>, <<1021, 1023, 1, -130>>, <<1024, 1039, 1,
     80>>, <<1040, 1071, 1, 32>>, <<1120, 1152, 2, 1>>, <<1162, 1214, 2, 1>>,
     <<1216, 1216, 1, 15>>, <<1217, 1229, 2, 1>>, <<1232, 1326, 2, 1>>,
     <<1329, 1366, 1, 48>>, <<4256, 4293, 1, 7264>>, <<4295, 4295, 1, 7264>>,
     <<4301, 4301, 1, 7264>>, <<5024, 5103, 1, 38864>>, <<5104, 5109, 1, 8>>,
     <<7312, 7354, 1, -3008>>, <<7357, 7359, 1, -3008>>, <<7680, 7828, 2, 1>>,
     <<7838, 7838, 1, -7615>>, <<7840, 7934, 2, 1>>, <<7944, 7951, 1, -8>>,
     <<7960, 7965, 1, -8>>, <<7976, 7983, 1, -8>>, <<7992, 7999, 1, -8>>,
     <<8008, 8013, 1, -8>>, <<8025, 8031, 2, -8>>, <<8040, 8047, 1, -8>>,
     <<8072, 8079, 1, -8>>, <<8088, 8095, 1, -8>>, <<8104, 8111, 1, -8>>,
     <<8120, 8121, 1, -8>>, <<8122, 8123, 1, -74>>, <<8124, 8124, 1, -9>>,
     <<8136, 8139, 1, -86>>, <<8140, 8140, 1, -9>>, <<8152, 8153, 1, -8>>,
     <<8154, 8155, 1, -100>>, <<8168, 8169, 1, -8>>, <<8170, 8171, 1, -112>>,
     <<8172, 8172, 1, -7>>, <<8184, 8185, 1, -128>>, <<8186, 8187, 1, -126>>,
     <<8188, 8188, 1, -9>>, <<8486, 8486, 1, -7517>>, <<8490, 8490, 1,
     -8383>>, <<8491, 8491, 1, -8262>>, <<8498, 8498, 1, 28>>, <<8544, 8559,
     1, 16>>, <<8579, 8579, 1, 1>>, <<9398, 9423, 1, 26>>, <<11264, 11311, 1,
     48>>, <<11360, 11360, 1, 1>>, <<11362, 11362, 1, -10743>>, <<11363,
     11363, 1, -3814>>, <<11364, 11364, 1, -10727>>, <<11367, 11371, 2, 1>>,
     <<11373, 11373, 1, -10780>>, <<11374, 11374, 1, -10749>>, <<11375, 11375,
     1, -10783>>, <<11376, 11376, 1, -10782>>, <<11378, 11378, 1, 1>>,
     <<11381, 11381, 1, 1>>, <<11390, 11391, 1, -10815>>, <<11392, 11490, 2,
     1>>, <<11499, 11501, 2, 1>>, <<11506, 11506, 1, 1>>, <<42560, 42604, 2,
     1>>, <<42624, 42650, 2, 1>>, <<42786, 42798, 2, 1>>, <<42802, 42862, 2,
     1>>, <<42873, 42875, 2, 1>>, <<42877, 42877, 1, -35332>>, <<42878, 42886,
     2, 1>>, <<42891, 42891, 1, 1>>, <<42893, 42893, 1, -42280>>, <<42896,
     42898, 2, 1>>, <<42902, 42920, 2, 1>>, <<42922, 42922, 1, -42308>>,
     <<42923, 42923, 1, -42319>>, <<42924, 42924, 1, -42315>>, <<42925, 42925,
     1, -42305>>, <<42926, 42926, 1, -42308>>, <<42928, 42928, 1, -42258>>,
     <<42929, 42929, 1, -42282>>, <<42930, 42930, 1, -42261>>, <<42931, 42931,
     1, 928>>, <<42932, 42946, 2, 1>>, <<42948, 42948, 1, -48>>, <<42949,
     42949, 1, -42307>>, <<42950, 42950, 1, -35384>>, <<42951, 42953, 2, 1>>,
     <<42960, 42960, 1, 1>>, <<42966, 42968, 2, 1>>, <<42997, 42997, 1, 1>>,
     <<65313, 65338, 1, 32>>, <<66560, 66599, 1, 40>>, <<66736, 66771, 1,
     40>>, <<66928, 66938, 1, 39>>, <<66940, 66954, 1, 39>>, <<66956, 66962,
     1, 39>>, <<66964, 66965, 1, 39>>, <<68736, 68786, 1, 64>>, <<71840,
     71871, 1, 32>>, <<93760, 93791, 1, 32>>, <<125184, 125217, 1, 34>>}

\* The characters whose lowercase is more than one character.
LowerSpecial ==
    {<<304, <<105, 775>>>>}

\* The characters above ASCII whose uppercase is one other character.
UpperRanges ==
    {<<181, 181, 1, 743>>, <<224, 246, 1, -32>>, <<248, 254, 1, -32>>, <<255,
     255, 1, 121>>, <<257, 303, 2, -1>>, <<305, 305, 1, -232>>, <<307, 311, 2,
     -1>>, <<314, 328, 2, -1>>, <<331, 375, 2, -1>>, <<378, 382, 2, -1>>,
     <<383, 383, 1, -300>>, <<384, 384, 1, 195>>, <<387, 389, 2, -1>>, <<392,
     392, 1, -1>>, <<396, 396, 1, -1>>, <<402, 402, 1, -1>>, <<405, 405, 1,
     97>>, <<409, 409, 1, -1>>, <<410, 410, 1, 163>>, <<414, 414, 1, 130>>,
     <<417, 421, 2, -1>>, <<424, 424, 1, -1>>, <<429, 429, 1, -1>>, <<432,
     432, 1, -1>>, <<436, 438, 2, -1>>, <<441, 441, 1, -1>>, <<445, 445, 1,
     -1>>, <<447, 447, 1, 56>>, <<453, 453, 1, -1>>, <<454, 454, 1, -2>>,
     <<456, 456, 1, -1>>, <<457, 457, 1, -2>>, <<459, 459, 1, -1>>, <<460,
     460, 1, -2>>, <<462, 476, 2, -1>>, <<477, 477, 1, -79>>, <<479, 495, 2,
     -1>>, <<498, 498, 1, -1>>, <<499, 499, 1, -2>>, <<501, 501, 1, -1>>,
     <<505, 543, 2, -1>>, <<547, 563, 2, -1>>, <<572, 572, 1, -1>>, <<575,
     576, 1, 10815>>, <<578, 578, 1, -1>>, <<583, 591, 2, -1>>, <<592, 592, 1,
     10783>>, <<593, 593, 1, 10780>>, <<594, 594, 1, 10782>>, <<595, 595, 1,
     -210>>, <<596, 596, 1, -206>>, <<598, 599, 1, -205>>, <<601, 601, 1,
     -202>>, <<603, 603, 1, -203>>, <<604, 604, 1, 42319>>, <<608, 608, 1,
     -205>>, <<609, 609, 1, 42315>>, <<611, 611, 1, -207>>, <<613, 613, 1,
     42280>>, <<614, 614, 1, 42308>>, <<616, 616, 1, -209>>, <<617, 617, 1,
     -211>>, <<618, 618, 1, 42308>>, <<619, 619, 1, 10743>>, <<620, 620, 1,
     42305>>, <<623, 623, 1, -211>>, <<625, 625, 1, 10749>>, <<626, 626, 1,
     -213>>, <<629, 629, 1, -214>>, <<637, 637, 1, 10727>>, <<640, 640, 1,
     -218>>, <<642, 642, 1, 42307>>, <<643, 643, 1, -218>>, <<647, 647, 1,
     42282>>, <<648, 648, 1, -218>>, <<649, 649, 1, -69>>, <<650, 651, 1,
     -217>>, <<652, 652, 1, -71>>, <<658, 658, 1, -219>>, <<669, 669, 1,
     42261>>, <<670, 670, 1, 42258>>, <<837, 837, 1, 84>>, <<881, 883, 2,
     -1>>, <<887, 887, 1, -1>>, <<891, 893, 1, 130>>, <<940, 940, 1, -38>>,
     <<941, 943, 1, -37>>, <<945, 961, 1, -32>>, <<962, 962, 1, -31>>, <<963,
     971, 1, -32>>, <<972, 972, 1, -64>>, <<973, 974, 1, -63>>, <<976, 976, 1,
     -62>>, <<977, 977, 1, -57>>, <<981, 981, 1, -47>>, <<982, 982, 1, -54>>,
     <<983, 983, 1, -8>>, <<985, 1007, 2, -1>>, <<1008, 1008, 1, -86>>,
     <<1009, 1009, 1, -80>>, <<1010, 1010, 1, 7>>, <<1011, 1011, 1, -116>>,
     <<1013, 1013, 1, -96>>, <<1016, 1016, 1, -1>>, <<1019, 1019, 1, -1>>,
     <<1072, 1103, 1, -32>>, <<1104, 1119, 1, -80>>, <<1121, 1153, 2, -1>>,
     <<1163, 1215, 2, -1>>, <<1218, 1230, 2, -1>>, <<1231, 1231, 1, -15>>,
     <<1233, 1327, 2, -1>>, <<1377, 1414, 1, -48>>, <<4304, 4346, 1, 3008>>,
     <<4349, 4351, 1, 3008>>, <<5112, 5117, 1, -8>>, <<7296, 7296, 1, -6254>>,
     <<7297, 7297, 1, -6253>>, <<7298, 7298, 1, -6244>>, <<7299, 7300, 1,
     -6242>>, <<7301, 7301, 1, -6243>>, <<7302, 7302, 1, -6236>>, <<7303,
     7303, 1, -6181>>, <<7304, 7304, 1, 35266>>, <<7545, 7545, 1, 35332>>,
     <<7549, 7549, 1, 3814>>, <<7566, 7566, 1, 35384>>, <<7681, 7829, 2, -1>>,
     <<7835, 7835, 1, -59>>, <<7841, 7935, 2, -1>>, <<7936, 7943, 1, 8>>,
     <<7952, 7957, 1, 8>>, <<7968, 7975, 1, 8>>, <<7984, 7991, 1, 8>>, <<8000,
     8005, 1, 8>>, <<8017, 8023, 2, 8>>, <<8032, 8039, 1, 8>>, <<8048, 8049,
     1, 74>>, <<8050, 8053, 1, 86>>, <<8054, 8055, 1, 100>>, <<8056, 8057, 1,
     128>>, <<8058, 8059, 1, 112>>, <<8060, 8061, 1, 126>>, <<8112, 8113, 1,
     8>>, <<8126, 8126, 1, -7205>>, <<8144, 8145, 1, 8>>, <<8160, 8161, 1,
     8>>, <<8165, 8165, 1, 7>>, <<8526, 8526, 1, -28>>, <<8560, 8575, 1,
     -16>>, <<8580, 8580, 1, -1>>, <<9424, 9449, 1, -26>>, <<11312, 11359, 1,
     -48>>, <<11361, 11361, 1, -1>>, <<11365, 11365, 1, -10795>>, <<11366,
     11366, 1, -10792>>, <<11368, 11372, 2, -1>>, <<11379, 11379, 1, -1>>,
     <<11382, 11382, 1, -1>>, <<11393, 11491, 2, -1>>, <<11500, 11502, 2,
     -1>>, <<11507, 11507, 1, -1>>, <<11520, 11557, 1, -7264>>, <<11559,
     11559, 1, -7264>>, <<11565, 11565, 1, -7264>>, <<42561, 42605, 2, -1>>,
     <<42625, 42651, 2, -1>>, <<42787, 42799, 2, -1>>, <<42803, 42863, 2,
     -1>>, <<42874, 42876, 2, -1>>, <<42879, 42887, 2, -1>>, <<42892, 42892,
     1, -1>>, <<42897, 42899, 2, -1>>, <<42900, 42900, 1, 48>>, <<42903,
     42921, 2, -1>>, <<42933, 42947, 2, -1>>, <<42952, 42954, 2, -1>>,
     <<42961, 42961, 1, -1>>, <<42967, 42969, 2, -1>>, <<42998, 42998, 1,
     -1>>, <<43859, 43859, 1, -928>>, <<43888, 43967, 1, -38864>>, <<65345,
     65370, 1, -32>>, <<66600, 66639, 1, -40>>, <<66776, 66811, 1, -40>>,
     <<66967, 66977, 1, -39>>, <<66979, 66993, 1, -39>>, <<66995, 67001, 1,
     -39>>, <<67003, 67004, 1, -39>>, <<68800, 68850, 1, -64>>, <<71872,
     71903, 1, -32>>, <<93792, 93823, 1, -32>>, <<125218, 125251, 1, -34>>}

\* The characters whose uppercase is more than one character.
UpperSpecial ==
    {<<223, <<83, 83>>>>, <<329, <<700, 78>>>>, <<496, <<74, 780>>>>, <<912,
     <<921, 776, 769>>>>, <<944, <<933, 776, 769>>>>, <<1415, <<1333,
     1362>>>>, <<7830, <<72, 817>>>>, <<7831, <<84, 776>>>>, <<7832, <<87,
     778>>>>, <<7833, <<89, 778>>>>, <<7834, <<65, 702>>>>, <<8016, <<933,
     787>>>>, <<8018, <<933, 787, 768>>>>, <<8020, <<933, 787, 769>>>>,
     <<8022, <<933, 787, 834>>>>, <<8064, <<7944, 921>>>>, <<8065, <<7945,
     921>>>>, <<8066, <<7946, 921>>>>, <<8067, <<7947, 921>>>>, <<8068,
     <<7948, 921>>>>, <<8069, <<7949, 921>>>>, <<8070, <<7950, 921>>>>,
     <<8071, <<7951, 921>>>>, <<8072, <<7944, 921>>>>, <<8073, <<7945,
     921>>>>, <<8074, <<7946, 921>>>>, <<8075, <<7947, 921>>>>, <<8076,
     <<7948, 921>>>>, <<8077, <<7949, 921>>>>, <<8078, <<7950, 921>>>>,
     <<8079, <<7951, 921>>>>, <<8080, <<7976, 921>>>>, <<8081, <<7977,
     921>>>>, <<8082, <<7978, 921>>>>, <<8083, <<7979, 921>>>>, <<8084,
     <<7980, 921>>>>, <<8085, <<7981, 921>>>>, <<8086, <<7982, 921>>>>,
     <<8087, <<7983, 921>>>>, <<8088, <<7976, 921>>>>, <<8089, <<7977,
     921>>>>, <<8090, <<7978, 921>>>>, <<8091, <<7979, 921>>>>, <<8092,
     <<7980, 921>>>>, <<8093, <<7981, 921>>>>, <<8094, <<7982, 921>>>>,
     <<8095, <<7983, 921>>>>, <<8096, <<8040, 921>>>>, <<8097, <<8041,
     921>>>>, <<8098, <<8042, 921>>>>, <<8099, <<8043, 921>>>>, <<8100,
     <<8044, 921>>>>, <<8101, <<8045, 921>>>>, <<8102, <<8046, 921>>>>,
     <<8103, <<8047, 921>>>>, <<8104, <<8040, 921>>>>, <<8105, <<8041,
     921>>>>, <<8106, <<8042, 921>>>>, <<8107, <<8043, 921>>>>, <<8108,
     <<8044, 921>>>>, <<8109, <<8045, 921>>>>, <<8110, <<8046, 921>>>>,
     <<8111, <<8047, 921>>>>, <<8114, <<8122, 921>>>>, <<8115, <<913, 921>>>>,
     <<8116, <<902, 921>>>>, <<8118, <<913, 834>>>>, <<8119, <<913, 834,
     921>>>>, <<8124, <<913, 921>>>>, <<8130, <<8138, 921>>>>, <<8131, <<919,
     921>>>>, <<8132, <<905, 921>>>>, <<8134, <<919, 834>>>>, <<8135, <<919,
     834, 921>>>>, <<8140, <<919, 921>>>>, <<8146, <<921, 776, 768>>>>,
     <<8147, <<921, 776, 769>>>>, <<8150, <<921, 834>>>>, <<8151, <<921, 776,
     834>>>>, <<8162, <<933, 776, 768>>>>, <<8163, <<933, 776, 769>>>>,
     <<8164, <<929, 787>>>>, <<8166, <<933, 834>>>>, <<8167, <<933, 776,
     834>>>>, <<8178, <<8186, 921>>>>, <<8179, <<937, 921>>>>, <<8180, <<911,
     921>>>>, <<8182, <<937, 834>>>>, <<8183, <<937, 834, 921>>>>, <<8188,
     <<937, 921>>>>, <<64256, <<70, 70>>>>, <<64257, <<70, 73>>>>, <<64258,
     <<70, 76>>>>, <<64259, <<70, 70, 73>>>>, <<64260, <<70, 70, 76>>>>,
     <<64261, <<83, 84>>>>, <<64262, <<83, 84>>>>, <<64275, <<1348, 1350>>>>,
     <<64276, <<1348, 1333>>>>, <<64277, <<1348, 1339>>>>, <<64278, <<1358,
     1350>>>>, <<64279, <<1348, 1341>>>>}

\* The case-ignorable characters: <<first, last>>.
CaseIgnorableRanges ==
    {<<39, 39>>, <<46, 46>>, <<58, 58>>, <<94, 94>>, <<96, 96>>, <<168, 168>>,
     <<173, 173>>, <<175, 175>>, <<180, 180>>, <<183, 184>>, <<688, 879>>,
     <<884, 885>>, <<890, 890>>, <<900, 901>>, <<903, 903>>, <<1155, 1161>>,
     <<1369, 1369>>, <<1375, 1375>>, <<1425, 1469>>, <<1471, 1471>>, <<1473,
     1474>>, <<1476, 1477>>, <<1479, 1479>>, <<1524, 1524>>, <<1536, 1541>>,
     <<1552, 1562>>, <<1564, 1564>>, <<1600, 1600>>, <<1611, 1631>>, <<1648,
     1648>>, <<1750, 1757>>, <<1759, 1768>>, <<1770, 1773>>, <<1807, 1807>>,
     <<1809, 1809>>, <<1840, 1866>>, <<1958, 1968>>, <<2027, 2037>>, <<2042,
     2042>>, <<2045, 2045>>, <<2070, 2093>>, <<2137, 2139>>, <<2184, 2184>>,
     <<2192, 2193>>, <<2200, 2207>>, <<2249, 2306>>, <<2362, 2362>>, <<2364,
     2364>>, <<2369, 2376>>, <<2381, 2381>>, <<2385, 2391>>, <<2402, 2403>>,
     <<2417, 2417>>, <<2433, 2433>>, <<2492, 2492>>, <<2497, 2500>>, <<2509,
     2509>>, <<2530, 2531>>, <<2558, 2558>>, <<2561, 2562>>, <<2620, 2620>>,
     <<2625, 2626>>, <<2631, 2632>>, <<2635, 2637>>, <<2641, 2641>>, <<2672,
     2673>>, <<2677, 2677>>, <<2689, 2690>>, <<2748, 2748>>, <<2753, 2757>>,
     <<2759, 2760>>, <<2765, 2765>>, <<2786, 2787>>, <<2810, 2815>>, <<2817,
     2817>>, <<2876, 2876>>, <<2879, 2879>>, <<2881, 2884>>, <<2893, 2893>>,
     <<2901, 2902>>, <<2914, 2915>>, <<2946, 2946>>, <<3008, 3008>>, <<3021,
     3021>>, <<3072, 3072>>, <<3076, 3076>>, <<3132, 3132>>, <<3134, 3136>>,
     <<3142, 3144>>, <<3146, 3149>>, <<3157, 3158>>, <<3170, 3171>>, <<3201,
     3201>>, <<3260, 3260>>, <<3263, 3263>>, <<3270, 3270>>, <<3276, 3277>>,
     <<3298, 3299>>, <<3328, 3329>>, <<3387, 3388>>, <<3393, 3396>>, <<3405,
     3405>>, <<3426, 3427>>, <<3457, 3457>>, <<3530, 3530>>, <<3538, 3540>>,
     <<3542, 3542>>, <<3633, 3633>>, <<3636, 3642>>, <<3654, 3662>>, <<3761,
     3761>>, <<3764, 3772>>, <<3782, 3782>>, <<3784, 3790>>, <<3864, 3865>>,
     <<3893, 3893>>, <<3895, 3895>>, <<3897, 3897>>, <<3953, 3966>>, <<3968,
     3972>>, <<3974, 3975>>, <<3981, 3991>>, <<3993, 4028>>, <<4038, 4038>>,
     <<4141, 4144>>, <<4146, 4151>>, <<4153, 4154>>, <<4157, 4158>>, <<4184,
     4185>>, <<4190, 4192>>, <<4209, 4212>>, <<4226, 4226>>, <<4229, 4230>>,
     <<4237, 4237>>, <<4253, 4253>>, <<4348, 4348>>, <<4957, 4959>>, <<5906,
     5908>>, <<5938, 5939>>, <<5970, 5971>>, <<6002, 6003>>, <<6068, 6069>>,
     <<6071, 6077>>, <<6086, 6086>>, <<6089, 6099>>, <<6103, 6103>>, <<6109,
     6109>>, <<6155, 6159>>, <<6211, 6211>>, <<6277, 6278>>, <<6313, 6313>>,
     <<6432, 6434>>, <<6439, 6440>>, <<6450, 6450>>, <<6457, 6459>>, <<6679,
     6680>>, <<6683, 6683>>, <<6742, 6742>>, <<6744, 6750>>, <<6752, 6752>>,
     <<6754, 6754>>, <<6757, 6764>>, <<6771, 6780>>, <<6783, 6783>>, <<6823,
     6823>>, <<6832, 6862>>, <<6912, 6915>>, <<6964, 6964>>, <<6966, 6970>>,
     <<6972, 6972>>, <<6978, 6978>>, <<7019, 7027>>, <<7040, 7041>>, <<7074,
     7077>>, <<7080, 7081>>, <<7083, 7085>>, <<7142, 7142>>, <<7144, 7145>>,
     <<7149, 7149>>, <<7151, 7153>>, <<7212, 7219>>, <<7222, 7223>>, <<7288,
     7293>>, <<7376, 7378>>, <<7380, 7392>>, <<7394, 7400>>, <<7405, 7405>>,
     <<7412, 7412>>, <<7416, 7417>>, <<7468, 7530>>, <<7544, 7544>>, <<7579,
     7679>>, <<8125, 8125>>, <<8127, 8129>>, <<8141, 8143>>, <<8157, 8159>>,
     <<8173, 8175>>, <<8189, 8190>>, <<8203, 8207>>, <<8216, 8217>>, <<8228,
     8228>>, <<8231, 8231>>, <<8234, 8238>>, <<8288, 8292>>, <<8294, 8303>>,
     <<8305, 8305>>, <<8319, 8319>>, <<8336, 8348>>, <<8400, 8432>>, <<11388,
     11389>>, <<11503, 11505>>, <<11631, 11631>>, <<11647, 11647>>, <<11744,
     11775>>, <<11823, 11823>>, <<12293, 12293>>, <<12330, 12333>>, <<12337,
     12341>>, <<12347, 12347>>, <<12441, 12446>>, <<12540, 12542>>, <<40981,
     40981>>, <<42232, 42237>>, <<42508, 42508>>, <<42607, 42610>>, <<42612,
     42621>>, <<42623, 42623>>, <<42652, 42655>>, <<42736, 42737>>, <<42752,
     42785>>, <<42864, 42864>>, <<42888, 42890>>, <<42994, 42996>>, <<43000,
     43001>>, <<43010, 43010>>, <<43014, 43014>>, <<43019, 43019>>, <<43045,
     43046>>, <<43052, 43052>>, <<43204, 43205>>, <<43232, 43249>>, <<43263,
     43263>>, <<43302, 43309>>, <<43335, 43345>>, <<43392, 43394>>, <<43443,
     43443>>, <<43446, 43449>>, <<43452, 43453>>, <<43471, 43471>>, <<43493,
     43494>>, <<43561, 43566>>, <<43569, 43570>>, <<43573, 43574>>, <<43587,
     43587>>, <<43596, 43596>>, <<43632, 43632>>, <<43644, 43644>>, <<43696,
     43696>>, <<43698, 43700>>, <<43703, 43704>>, <<43710, 43711>>, <<43713,
     43713>>, <<43741, 43741>>, <<43756, 43757>>, <<43763, 43764>>, <<43766,
     43766>>, <<43867, 43871>>, <<43881, 43883>>, <<44005, 44005>>, <<44008,
     44008>>, <<44013, 44013>>, <<64286, 64286>>, <<64434, 64450>>, <<65024,
     65039>>, <<65043, 65043>>, <<65056, 65071>>, <<65106, 65106>>, <<65109,
     65109>>, <<65279, 65279>>, <<65287, 65287>>, <<65294, 65294>>, <<65306,
     65306>>, <<65342, 65342>>, <<65344, 65344>>, <<65392, 65392>>, <<65438,
     65439>>, <<65507, 65507>>, <<65529, 65531>>, <<66045, 66045>>, <<66272,
     66272>>, <<66422, 66426>>, <<67456, 67461>>, <<67463, 67504>>, <<67506,
     67514>>, <<68097, 68099>>, <<68101, 68102>>, <<68108, 68111>>, <<68152,
     68154>>, <<68159, 68159>>, <<68325, 68326>>, <<68900, 68903>>, <<69291,
     69292>>, <<69373, 69375>>, <<69446, 69456>>, <<69506, 69509>>, <<69633,
     69633>>, <<69688, 69702>>, <<69744, 69744>>, <<69747, 69748>>, <<69759,
     69761>>, <<69811, 69814>>, <<69817, 69818>>, <<69821, 69821>>, <<69826,
     69826>>, <<69837, 69837>>, <<69888, 69890>>, <<69927, 69931>>, <<69933,
     69940>>, <<70003, 70003>>, <<70016, 70017>>, <<70070, 70078>>, <<70089,
     70092>>, <<70095, 70095>>, <<70191, 70193>>, <<70196, 70196>>, <<70198,
     70199>>, <<70206, 70206>>, <<70209, 70209>>, <<70367, 70367>>, <<70371,
     70378>>, <<70400, 70401>>, <<70459, 70460>>, <<70464, 70464>>, <<70502,
     70508>>, <<70512, 70516>>, <<70712, 70719>>, <<70722, 70724>>, <<70726,
     70726>>, <<70750, 70750>>, <<70835, 70840>>, <<70842, 70842>>, <<70847,
     70848>>, <<70850, 70851>>, <<71090, 71093>>, <<71100, 71101>>, <<71103,
     71104>>, <<71132, 71133>>, <<71219, 71226>>, <<71229, 71229>>, <<71231,
     71232>>, <<71339, 71339>>, <<71341, 71341>>, <<71344, 71349>>, <<71351,
     71351>>, <<71453, 71455>>, <<71458, 71461>>, <<71463, 71467>>, <<71727,
     71735>>, <<71737, 71738>>, <<71995, 71996>>, <<71998, 71998>>, <<72003,
     72003>>, <<72148, 72151>>, <<72154, 72155>>, <<72160, 72160>>, <<72193,
     72202>>, <<72243, 72248>>, <<72251, 72254>>, <<72263, 72263>>, <<72273,
     72278>>, <<72281, 72283>>, <<72330, 72342>>, <<72344, 72345>>, <<72752,
     72758>>, <<72760, 72765>>, <<72767, 72767>>, <<72850, 72871>>, <<72874,
     72880>>, <<72882, 72883>>, <<72885, 72886>>, <<73009, 73014>>, <<73018,
     73018>>, <<73020, 73021>>, <<73023, 73029>>, <<73031, 73031>>, <<73104,
     73105>>, <<73109, 73109>>, <<73111, 73111>>, <<73459, 73460>>, <<73472,
     73473>>, <<73526, 73530>>, <<73536, 73536>>, <<73538, 73538>>, <<78896,
     78912>>, <<78919, 78933>>, <<92912, 92916>>, <<92976, 92982>>, <<92992,
     92995>>, <<94031, 94031>>, <<94095, 94111>>, <<94176, 94177>>, <<94179,
     94180>>, <<110576, 110579>>, <<110581, 110587>>, <<110589, 110590>>,
     <<113821, 113822>>, <<113824, 113827>>, <<118528, 118573>>, <<118576,
     118598>>, <<119143, 119145>>, <<119155, 119170>>, <<119173, 119179>>,
     <<119210, 119213>>, <<119362, 119364>>, <<121344, 121398>>, <<121403,
     121452>>, <<121461, 121461>>, <<121476, 121476>>, <<121499, 121503>>,
     <<121505, 121519>>, <<122880, 122886>>, <<122888, 122904>>, <<122907,
     122913>>, <<122915, 122916>>, <<122918, 122922>>, <<122928, 122989>>,
     <<123023, 123023>>, <<123184, 123197>>, <<123566, 123566>>, <<123628,
     123631>>, <<124139, 124143>>, <<125136, 125142>>, <<125252, 125259>>,
     <<127995, 127999>>, <<917505, 917505>>, <<917536, 917631>>, <<917760,
     917999>>}
\* The cased characters that are not case-ignorable: <<first, last>>.
CasedRanges ==
    {<<65, 90>>, <<97, 122>>, <<170, 170>>, <<181, 181>>, <<186, 186>>, <<192,
     214>>, <<216, 246>>, <<248, 442>>, <<444, 447>>, <<452, 659>>, <<661,
     687>>, <<880, 883>>, <<886, 887>>, <<891, 893>>, <<895, 895>>, <<902,
     902>>, <<904, 906>>, <<908, 908>>, <<910, 929>>, <<931, 1013>>, <<1015,
     1153>>, <<1162, 1327>>, <<1329, 1366>>, <<1376, 1416>>, <<4256, 4293>>,
     <<4295, 4295>>, <<4301, 4301>>, <<4304, 4346>>, <<4349, 4351>>, <<5024,
     5109>>, <<5112, 5117>>, <<7296, 7304>>, <<7312, 7354>>, <<7357, 7359>>,
     <<7424, 7467>>, <<7531, 7543>>, <<7545, 7578>>, <<7680, 7957>>, <<7960,
     7965>>, <<7968, 8005>>, <<8008, 8013>>, <<8016, 8023>>, <<8025, 8025>>,
     <<8027, 8027>>, <<8029, 8029>>, <<8031, 8061>>, <<8064, 8116>>, <<8118,
     8124>>, <<8126, 8126>>, <<8130, 8132>>, <<8134, 8140>>, <<8144, 8147>>,
     <<8150, 8155>>, <<8160, 8172>>, <<8178, 8180>>, <<8182, 8188>>, <<8450,
     8450>>, <<8455, 8455>>, <<8458, 8467>>, <<8469, 8469>>, <<8473, 8477>>,
     <<8484, 8484>>, <<8486, 8486>>, <<8488, 8488>>, <<8490, 8493>>, <<8495,
     8500>>, <<8505, 8505>>, <<8508, 8511>>, <<8517, 8521>>, <<8526, 8526>>,
     <<8544, 8575>>, <<8579, 8580>>, <<9398, 9449>>, <<11264, 11387>>, <<11390,
     11492>>, <<11499, 11502>>, <<11506, 11507>>, <<11520, 11557>>, <<11559,
     11559>>, <<11565, 11565>>, <<42560, 42605>>, <<42624, 42651>>, <<42786,
     42863>>, <<42865, 42887>>, <<42891, 42894>>, <<42896, 42954>>, <<42960,
     42961>>, <<42963, 42963>>, <<42965, 42969>>, <<42997, 42998>>, <<43002,
     43002>>, <<43824, 43866>>, <<43872, 43880>>, <<43888, 43967>>, <<64256,
     64262>>, <<64275, 64279>>, <<65313, 65338>>, <<65345, 65370>>, <<66560,
     66639>>, <<66736, 66771>>, <<66776, 66811>>, <<66928, 66938>>, <<66940,
     66954>>, <<66956, 66962>>, <<66964, 66965>>, <<66967, 66977>>, <<66979,
     66993>>, <<66995, 67001>>, <<67003, 67004>>, <<68736, 68786>>, <<68800,
     68850>>, <<71840, 71903>>, <<93760, 93823>>, <<119808, 119892>>, <<119894,
     119964>>, <<119966, 119967>>, <<119970, 119970>>, <<119973, 119974>>,
     <<119977, 119980>>, <<119982, 119993>>, <<119995, 119995>>, <<119997,
     120003>>, <<120005, 120069>>, <<120071, 120074>>, <<120077, 120084>>,
     <<120086, 120092>>, <<120094, 120121>>, <<120123, 120126>>, <<120128,
     120132>>, <<120134, 120134>>, <<120138, 120144>>, <<120146, 120485>>,
     <<120488, 120512>>, <<120514, 120538>>, <<120540, 120570>>, <<120572,
     120596>>, <<120598, 120628>>, <<120630, 120654>>, <<120656, 120686>>,
     <<120688, 120712>>, <<120714, 120744>>, <<120746, 120770>>, <<120772,
     120779>>, <<122624, 122633>>, <<122635, 122654>>, <<122661, 122666>>,
     <<125184, 125251>>, <<127280, 127305>>, <<127312, 127337>>, <<127344,
     127369>>}
case_ignorable(c) == \E r \in CaseIgnorableRanges : r[1] <= c /\ c <= r[2]
cased(c) == \E r \in CasedRanges : r[1] <= c /\ c <= r[2]

\* A-Z to a-z and nothing else.
ascii_lower_char(c) == IF c \in 65..90 THEN c + 32 ELSE c

\* The lowercase of one character out of context, a string.
lower_char(c) ==
    IF c < 128 THEN <<ascii_lower_char(c)>>
    ELSE IF \E x \in LowerSpecial : x[1] = c
         THEN (CHOOSE x \in LowerSpecial : x[1] = c)[2]
    ELSE IF \E r \in LowerRanges : in_range(c, r)
         THEN <<c + (CHOOSE r \in LowerRanges : in_range(c, r))[4]>>
    ELSE <<c>>

\* The uppercase of one character, a string.
upper_char(c) ==
    IF c < 128 THEN <<IF c \in 97..122 THEN c - 32 ELSE c>>
    ELSE IF \E x \in UpperSpecial : x[1] = c
         THEN (CHOOSE x \in UpperSpecial : x[1] = c)[2]
    ELSE IF \E r \in UpperRanges : in_range(c, r)
         THEN <<c + (CHOOSE r \in UpperRanges : in_range(c, r))[4]>>
    ELSE <<c>>

\* Whether the capital sigma at s[i] is in final position: a cased character
\* before it, and none after it, case-ignorable characters skipped.
final_sigma(s, i) ==
    LET before == {j \in 1..(i - 1) : ~case_ignorable(s[j])}
        after  == {j \in (i + 1)..Len(s) : ~case_ignorable(s[j])}
        last   == CHOOSE j \in before : \A k \in before : k <= j
        first  == CHOOSE j \in after : \A k \in after : j <= k
    IN  /\ before # {}
        /\ cased(s[last])
        /\ after = {} \/ ~cased(s[first])

\* str.lower()
lower(s) ==
    concat([i \in 1..Len(s) |->
               IF s[i] = 931
               THEN <<IF final_sigma(s, i) THEN 962 ELSE 963>>
               ELSE lower_char(s[i])])

\* str.upper()
upper(s) == concat([i \in 1..Len(s) |-> upper_char(s[i])])

\* Lowering of A-Z only, as the bool parsing of a settings field compares.
ascii_lower(s) == [i \in 1..Len(s) |-> ascii_lower_char(s[i])]

s_true         == <<116, 114, 117, 101>>  \* 'true'
s_True         == <<84, 114, 117, 101>>  \* 'True'
s_false        == <<102, 97, 108, 115, 101>>  \* 'false'
s_yes          == <<121, 101, 115>>  \* 'yes'
s_no           == <<110, 111>>  \* 'no'
s_on           == <<111, 110>>  \* 'on'
s_off          == <<111, 102, 102>>  \* 'off'
s_1            == <<49>>  \* '1'
s_0            == <<48>>  \* '0'
s_t            == <<116>>  \* 't'
s_f            == <<102>>  \* 'f'
s_y            == <<121>>  \* 'y'
s_n            == <<110>>  \* 'n'
s_maybe        == <<109, 97, 121, 98, 101>>  \* 'maybe'
s_empty        == <<>>  \* ''
s_debug        == <<100, 101, 98, 117, 103>>  \* 'debug'
s_info         == <<105, 110, 102, 111>>  \* 'info'
s_warning      == <<119, 97, 114, 110, 105, 110, 103>>  \* 'warning'
s_error        == <<101, 114, 114, 111, 114>>  \* 'error'
s_critical     == <<99, 114, 105, 116, 105, 99, 97, 108>>  \* 'critical'
s_INFO         == <<73, 78, 70, 79>>  \* 'INFO'
s_DEBUG        == <<68, 69, 66, 85, 71>>  \* 'DEBUG'
s_ERROR        == <<69, 82, 82, 79, 82>>  \* 'ERROR'
s_Debug        == <<68, 101, 98, 117, 103>>  \* 'Debug'
s_verbose      == <<118, 101, 114, 98, 111, 115, 101>>  \* 'verbose'
s_dotless_info == <<305, 110, 102, 111>>  \* '\u0131nfo'

(***************************************************************************)
(* Python values and the environment                                       *)
(***************************************************************************)
PyBool(b) == [t |-> "bool", b |-> b, s |-> <<>>]
PyStr(s)  == [t |-> "str", b |-> FALSE, s |-> s]

\* bool(v) / truthiness, as `not v` and `4 if v else 1` use it
truthy(v) == IF v.t = "bool" THEN v.b ELSE Len(v.s) > 0

Unset    == [set |-> FALSE, val |-> <<>>]
EnvVal(s) == [set |-> TRUE, val |-> s]

Ok(v)  == [ok |-> TRUE, val |-> v]
Err    == [ok |-> FALSE, val |-> PyStr(<<>>)]

(***************************************************************************)
(* Configuration records (src/core/fast_api_setup.py)                      *)
(***************************************************************************)
\* Field defaults: PRODUCTION "false", FASTAPI_LOG_LEVEL "INFO" (both records).
default_PRODUCTION == s_false
default_FASTAPI_LOG_LEVEL == s_INFO

\* The raw input of a settings field: the environment variable when it is set,
\* else the entry of the .env file (Config.env_file), else the declared
\* default. An empty value is a value. BaseSettings validates defaults like
\* inputs.
field_input(e, d, default) ==
    IF e.set THEN e.val ELSE IF d.set THEN d.val ELSE default

\* The keys besides PRODUCTION and FASTAPI_LOG_LEVEL are held by the class of
\* their value, in the environment and in a .env file alike:
\*   `other`  a value that the field of that name, where a record has one,
\*            accepts (HOST=127.0.0.1, PORT=8080, SERVER_TITLE=api, FOO=bar)
\*   `bad`    a value that the field of that name rejects (HOST=example.com,
\*            PORT=0, RELOAD=maybe, VERSION=1.0, SERVER_TITLE=<api>)
\*   `blank`  the empty value (HOST=)
\* HOST and PORT, the fields both records have, are validated alike in both.

\* The keys of a .env file that the settings source passes on as inputs when
\* no field reads them: those whose value is not empty (an entry "KEY=" is
\* skipped).
dotenv_keys(d) ==
    (IF d.PRODUCTION.set /\ d.PRODUCTION.val # <<>> THEN {"PRODUCTION"} ELSE {})
        \cup (IF d.FASTAPI_LOG_LEVEL.set /\ d.FASTAPI_LOG_LEVEL.val # <<>>
              THEN {"FASTAPI_LOG_LEVEL"} ELSE {})
        \cup d.other \cup d.bad

\* The class of the raw input of the field named k: the environment variable
\* when it is set, else the entry of the .env file, else the default.
field_class(e, d, k) ==
    IF k \in e.other THEN "valid"
    ELSE IF k \in e.bad THEN "invalid"
    ELSE IF k \in e.blank THEN "empty"
    ELSE IF k \in d.other THEN "valid"
    ELSE IF k \in d.bad THEN "invalid"
    ELSE IF k \in d.blank THEN "empty"
    ELSE "default"

\* DESCRIPTION is a str with no constraint and no validator: it accepts every
\* string. Every other field rejects the empty string: HOST (validate_host),
\* PORT (int), RELOAD (bool), the log levels (validate_log_level), SERVER_TITLE
\* (min_length=1), VERSION (validate_version), CORS_ORIGINS
\* (validate_cors_origins).
field_accepts(k, c) == k = "DESCRIPTION" \/ c \in {"default", "valid"}

\* The fields whose raw input is modelled as a string.
string_fields == {"PRODUCTION", "FASTAPI_LOG_LEVEL"}

\* Every field of `fields` besides those two validates.
fields_validate(e, d, fields) ==
    \A k \in fields \ string_fields : field_accepts(k, field_class(e, d, k))

\* The fields of the two records. BaseSettings forbids extra inputs: a .env
\* entry that is no field of the record makes its construction fail.
MainConfig_fields == {"HOST", "PORT", "RELOAD", "UVICORN_LOG_LEVEL",
                      "MAIN_LOG_LEVEL", "FASTAPI_LOG_LEVEL", "PRODUCTION"}
FastApiConfig_fields == {"SERVER_TITLE", "DESCRIPTION", "VERSION", "HOST",
                         "PORT", "CORS_ORIGINS", "FASTAPI_LOG_LEVEL"}

\* The directories load_dotenv() searches for a .env file, in order: that of
\* the calling file, src/main/main_setup.py, and then every parent up to the
\* root of the file system: src, the repository root, the directory holding
\* the repository ("parent") and the file system root ("fs_root", which also
\* stands for the directories between the two).
SearchPath == <<"src_main", "src", "root", "parent", "fs_root">>

\* find_dotenv(): the first .env file on the search path; an empty file counts.
find_dotenv(fs) ==
    IF \E k \in 1..Len(SearchPath) : fs[SearchPath[k]].present
    THEN fs[SearchPath[CHOOSE k \in 1..Len(SearchPath) :
                /\ fs[SearchPath[k]].present
                /\ \A j \in 1..(k - 1) : ~fs[SearchPath[j]].present]]
    ELSE [present |-> FALSE, PRODUCTION |-> Unset, FASTAPI_LOG_LEVEL |-> Unset,
          other |-> {}, bad |-> {}, blank |-> {}]

\* Config.env_file = ".env": the .env file of the working directory, whatever
\* load_dotenv() found.
env_file(fs, dir) == fs[dir]

\* load_dotenv(): every entry of the file find_dotenv() found whose variable
\* is not set is copied into the process environment, an empty value included.
load_dotenv(e, fs) ==
    LET d == find_dotenv(fs)
        held == e.other \cup e.bad \cup e.blank
    IN
    [PRODUCTION |-> IF e.PRODUCTION.set THEN e.PRODUCTION ELSE d.PRODUCTION,
     FASTAPI_LOG_LEVEL |-> IF e.FASTAPI_LOG_LEVEL.set THEN e.FASTAPI_LOG_LEVEL
                           ELSE d.FASTAPI_LOG_LEVEL,
     other |-> e.other \cup (d.other \ held),
     bad |-> e.bad \cup (d.bad \ held),
     blank |-> e.blank \cup (d.blank \ held)]

\* The `bool` annotation of PRODUCTION: the field's own validation of a string,
\* which runs before the field_validator (whose mode is the default, "after").
bool_field(raw) ==
    LET l == ascii_lower(raw) IN
    IF l \in {s_true, s_1, s_t, s_yes, s_y, s_on} THEN Ok(PyBool(TRUE))
    ELSE IF l \in {s_false, s_0, s_f, s_no, s_n, s_off} THEN Ok(PyBool(FALSE))
    ELSE Err

\* MainConfig.validate_production
validate_production(v) ==
    IF v.t = "bool" THEN v.b
    ELSE IF v.t = "str"
         THEN lower(v.s) \in {s_true, s_1, s_yes, s_on, s_false, s_no}
         ELSE truthy(v)

\* A plausible slip: the validator registered with mode="before", so that it
\* sees the raw string.
MainConfig_PRODUCTION_before(raw) == Ok(PyBool(validate_production(PyStr(raw))))

\* The value MainConfig stores for PRODUCTION, from the raw input.
MainConfig_PRODUCTION(raw) ==
    LET c == bool_field(raw) IN
    IF c.ok THEN Ok(PyBool(validate_production(c.val))) ELSE Err

valid_levels == {s_debug, s_info, s_warning, s_error, s_critical}

\* MainConfig.validate_log_level
MainConfig_validate_log_level(v) ==
    LET v_lower == lower(v) IN
    IF v_lower \notin valid_levels THEN Err ELSE Ok(PyStr(v_lower))

\* Field(pattern="^(DEBUG|INFO|WARNING|ERROR|CRITICAL)$") of FastApiConfig
FASTAPI_LOG_LEVEL_pattern(v) == v \in {upper(x) : x \in valid_levels}

\* FastApiConfig.validate_log_level
FastApiConfig_validate_log_level(v) ==
    IF upper(v) \notin {upper(x) : x \in valid_levels} THEN Err
    ELSE Ok(PyStr(upper(v)))

\* The value FastApiConfig stores for FASTAPI_LOG_LEVEL: the pattern constraint
\* of the field, then the field_validator.
FastApiConfig_FASTAPI_LOG_LEVEL(raw) ==
    IF FASTAPI_LOG_LEVEL_pattern(raw) THEN FastApiConfig_validate_log_level(raw)
    ELSE Err

NoConfig == [loaded |-> FALSE, ok |-> FALSE, PRODUCTION |-> PyStr(<<>>),
             FASTAPI_LOG_LEVEL |-> <<>>]
BadConfig == [NoConfig EXCEPT !.loaded = TRUE]

\* MainConfig(): every field validated and no extra .env entry.
MainConfig(e, d) ==
    LET p == MainConfig_PRODUCTION(
                 field_input(e.PRODUCTION, d.PRODUCTION, default_PRODUCTION))
        l == MainConfig_validate_log_level(
                 field_input(e.FASTAPI_LOG_LEVEL, d.FASTAPI_LOG_LEVEL,
                             default_FASTAPI_LOG_LEVEL))
    IN  IF /\ p.ok /\ l.ok
           /\ fields_validate(e, d, MainConfig_fields)
           /\ dotenv_keys(d) \subseteq MainConfig_fields
        THEN [loaded |-> TRUE, ok |-> TRUE, PRODUCTION |-> p.val,
              FASTAPI_LOG_LEVEL |-> l.val.s]
        ELSE BadConfig

\* FastApiConfig()
FastApiConfig(e, d) ==
    LET l == FastApiConfig_FASTAPI_LOG_LEVEL(
                 field_input(e.FASTAPI_LOG_LEVEL, d.FASTAPI_LOG_LEVEL,
                             default_FASTAPI_LOG_LEVEL))
    IN  IF /\ l.ok
           /\ fields_validate(e, d, FastApiConfig_fields)
           /\ dotenv_keys(d) \subseteq FastApiConfig_fields
        THEN [loaded |-> TRUE, ok |-> TRUE, PRODUCTION |-> PyStr(<<>>),
              FASTAPI_LOG_LEVEL |-> l.val.s]
        ELSE BadConfig

\* The values of the two environment variables explored.
ProductionInputs == {Unset, EnvVal(s_false), EnvVal(s_no), EnvVal(s_True),
                     EnvVal(s_maybe), EnvVal(s_empty)}
LogLevelInputs == {Unset, EnvVal(s_INFO), EnvVal(s_info), EnvVal(s_Debug),
                   EnvVal(s_verbose), EnvVal(s_dotless_info)}

\* The .env files explored: none, one entry of PRODUCTION or FASTAPI_LOG_LEVEL
\* (with a value or with none), or one entry of another key (FOO: a field of
\* neither record; HOST: a field of both; SERVER_TITLE and DESCRIPTION: fields
\* of FastApiConfig only; RELOAD: a field of MainConfig only), with a value or
\* with none. Keys are written in upper case. A line that is a bare key,
\* with no "=", is read by neither reader and is not modelled.
NoDotenv == [present |-> FALSE, PRODUCTION |-> Unset,
             FASTAPI_LOG_LEVEL |-> Unset, other |-> {}, bad |-> {},
             blank |-> {}]
EmptyDotenv == [NoDotenv EXCEPT !.present = TRUE]
DotenvInputs ==
    {NoDotenv,
     [EmptyDotenv EXCEPT !.PRODUCTION = EnvVal(s_true)],
     [EmptyDotenv EXCEPT !.PRODUCTION = EnvVal(s_empty)],
     [EmptyDotenv EXCEPT !.FASTAPI_LOG_LEVEL = EnvVal(s_DEBUG)],
     [EmptyDotenv EXCEPT !.FASTAPI_LOG_LEVEL = EnvVal(s_verbose)],
     [EmptyDotenv EXCEPT !.other = {"FOO"}],
     [EmptyDotenv EXCEPT !.blank = {"FOO"}],
     [EmptyDotenv EXCEPT !.other = {"SERVER_TITLE"}],
     [EmptyDotenv EXCEPT !.other = {"HOST"}],
     [EmptyDotenv EXCEPT !.bad = {"HOST"}],
     [EmptyDotenv EXCEPT !.blank = {"HOST"}],
     [EmptyDotenv EXCEPT !.blank = {"SERVER_TITLE"}],
     [EmptyDotenv EXCEPT !.blank = {"DESCRIPTION"}],
     [EmptyDotenv EXCEPT !.blank = {"RELOAD"}]}

\* The directories that may hold a .env file: the five of the search path,
\* and a working directory outside it.
Dirs == {"src_main", "src", "root", "parent", "fs_root", "elsewhere"}
NoFiles == [d \in Dirs |-> NoDotenv]

\* The file systems and working directories explored: every explored file
\* alone in the repository root, and files in the directories that only
\* load_dotenv() or only env_file reads.
FileSystems ==
    {[files |-> [NoFiles EXCEPT !.root = f], cwd |-> "root"] : f \in DotenvInputs}
    \cup
    {[files |-> [NoFiles EXCEPT !.src =
                    [EmptyDotenv EXCEPT !.PRODUCTION = EnvVal(s_true)]],
      cwd |-> "root"],
     [files |-> [NoFiles EXCEPT !.src_main =
                    [EmptyDotenv EXCEPT !.FASTAPI_LOG_LEVEL = EnvVal(s_verbose)]],
      cwd |-> "root"],
     [files |-> [NoFiles EXCEPT !.fs_root =
                    [EmptyDotenv EXCEPT !.PRODUCTION = EnvVal(s_true)]],
      cwd |-> "root"],
     [files |-> [NoFiles EXCEPT !.parent =
                    [EmptyDotenv EXCEPT !.FASTAPI_LOG_LEVEL = EnvVal(s_verbose)]],
      cwd |-> "root"],
     [files |-> [NoFiles EXCEPT
                    !.parent = [EmptyDotenv EXCEPT
                                   !.FASTAPI_LOG_LEVEL = EnvVal(s_DEBUG)],
                    !.fs_root = [EmptyDotenv EXCEPT
                                    !.FASTAPI_LOG_LEVEL = EnvVal(s_verbose)]],
      cwd |-> "root"],
     [files |-> [NoFiles EXCEPT
                    !.root = [EmptyDotenv EXCEPT
                                 !.FASTAPI_LOG_LEVEL = EnvVal(s_DEBUG)],
                    !.src = [EmptyDotenv EXCEPT
                                !.FASTAPI_LOG_LEVEL = EnvVal(s_ERROR)]],
      cwd |-> "root"],
     [files |-> [NoFiles EXCEPT
                    !.src_main = EmptyDotenv,
                    !.root = [EmptyDotenv EXCEPT !.PRODUCTION = EnvVal(s_true)]],
      cwd |-> "root"],
     [files |-> [NoFiles EXCEPT
                    !.root = [EmptyDotenv EXCEPT
                                 !.FASTAPI_LOG_LEVEL = EnvVal(s_DEBUG)],
                    !.elsewhere = [EmptyDotenv EXCEPT !.other = {"FOO"}]],
      cwd |-> "elsewhere"],
     [files |-> [NoFiles EXCEPT !.src = [EmptyDotenv EXCEPT !.blank = {"HOST"}]],
      cwd |-> "root"],
     [files |-> [NoFiles EXCEPT
                    !.src = [EmptyDotenv EXCEPT !.blank = {"SERVER_TITLE"}]],
      cwd |-> "root"],
     [files |-> [NoFiles EXCEPT
                    !.src = [EmptyDotenv EXCEPT !.other = {"HOST"}],
                    !.root = [EmptyDotenv EXCEPT !.blank = {"HOST"}]],
      cwd |-> "root"],
     [files |-> [NoFiles EXCEPT
                    !.elsewhere = [EmptyDotenv EXCEPT !.blank = {"HOST"}]],
      cwd |-> "elsewhere"],
     [files |-> [NoFiles EXCEPT
                    !.elsewhere = [EmptyDotenv EXCEPT
                                      !.blank = {"SERVER_TITLE"}]],
      cwd |-> "elsewhere"]}

\* Every explored environment with every explored file system.
Environments ==
    {[env |-> e, files |-> fs.files, cwd |-> fs.cwd] :
        e \in [PRODUCTION : ProductionInputs, FASTAPI_LOG_LEVEL : LogLevelInputs,
               other : {{}}, bad : {{}}, blank : {{}, {"PORT"}}],
        fs \in FileSystems}

\* The environments the whole program is run in: some in which both records
\* validate, by the defaults, by the environment, by a .env file above the
\* repository or beside an entry without a value, and some in which one fails.
NoEnv == [PRODUCTION |-> Unset, FASTAPI_LOG_LEVEL |-> Unset, other |-> {},
          bad |-> {}, blank |-> {}]
Deployments ==
    {x \in Environments :
        \/ /\ x.files = NoFiles
           /\ x.env \in {NoEnv,
                          [NoEnv EXCEPT !.PRODUCTION = EnvVal(s_True)],
                          [NoEnv EXCEPT !.PRODUCTION = EnvVal(s_maybe)],
                          [NoEnv EXCEPT !.FASTAPI_LOG_LEVEL = EnvVal(s_info)]}
        \/ /\ x.env = NoEnv
           /\ \/ x.files.fs_root.PRODUCTION.set
              \/ x.files.parent.present /\ ~x.files.fs_root.present
              \/ x.files.root.other = {"FOO"}
              \/ x.files.root.blank \in {{"FOO"}, {"SERVER_TITLE"},
                                         {"DESCRIPTION"}}
              \/ x.files.src.blank = {"HOST"}
              \/ x.files.root.PRODUCTION = EnvVal(s_true) /\ ~x.files.src_main.present
        \/ /\ x.env = [NoEnv EXCEPT !.PRODUCTION = EnvVal(s_false)]
           /\ x.files.root.PRODUCTION = EnvVal(s_empty)}

(***************************************************************************)
(* Background tasks                                                        *)
(***************************************************************************)
\* What a registered task's run() does:
\*   "loop"    SomeDemo.run: log, await sleep, forever
\*   "raise"   BackgroundTask.run: raises NotImplementedError
\*   "once"    a subclass whose run awaits one sleep and returns
\*   "swallow" a subclass whose loop catches CancelledError and keeps looping
\*   "busy"    a subclass whose loop never reaches a suspension point
Kinds == {"loop", "raise", "once", "swallow", "busy"}

Terminal == {"completed", "cancelled", "failed"}

K == Len(background_tasks)
Tasks == 1..K

\* One step of a task's coroutine, from its resumption by the event loop to
\* its next suspension point or its end. `begun`: the body has started before;
\* `cancel`: the step throws the pending CancelledError into the coroutine.
run_step(kind, begun, cancel) ==
    IF cancel
    THEN IF ~begun THEN "cancelled"
         ELSE IF kind = "swallow" THEN "suspended"
         ELSE "cancelled"
    ELSE CASE kind = "loop"    -> "suspended"
           [] kind = "raise"   -> "failed"
           [] kind = "once"    -> IF begun THEN "completed" ELSE "suspended"
           [] kind = "swallow" -> "suspended"
           [] kind = "busy"    -> "running"

(***************************************************************************)
(* Initial state: the process is about to import src/main/main_setup.py    *)
(***************************************************************************)
TaskLists == UNION {[1..n -> Kinds] : n \in 0..MaxTasks}

\* The state of a process about to start, in environment x with the task
\* list ts registered in main.py.
Start(x, ts) ==
    /\ env = x.env
    /\ files = x.files
    /\ cwd = x.cwd
    /\ background_tasks = ts
    /\ ppc = "import_setup"
    /\ exitCode = -1
    /\ main_config = NoConfig
    /\ api_config = NoConfig
    /\ reload = FALSE
    /\ workers = 0
    /\ hpc = "off"
    /\ hmode = "none"
    /\ lpc = "idle"
    /\ li = 0
    /\ task_handles = <<>>
    /\ tstate = [i \in Tasks |-> "none"]
    /\ started = [i \in Tasks |-> FALSE]
    /\ mustCancel = [i \in Tasks |-> FALSE]
    /\ ready = <<>>
    /\ cancelCalls = {}
    /\ log = <<>>

Init == \E x \in Deployments : \E ts \in TaskLists : Start(x, ts)

\* main.py as written, with its one SomeDemo task, in every environment.
ConfigInit == \E x \in Environments : Start(x, <<"loop">>)

lifeVars == <<hpc, hmode, lpc, li, task_handles, tstate, started, mustCancel,
              ready, cancelCalls, log>>

(***************************************************************************)
(* Process start-up (main_setup.py module level, main.py)                  *)
(***************************************************************************)
\* A slip: the except branch prints and goes on instead of calling sys.exit.
after_MainConfig_no_exit(cfg) == "import_main"

\* Where the process goes after MainConfig(): on if it validated,
\* sys.exit(1) if it raised.
after_MainConfig(cfg) == IF cfg.ok THEN "import_main" ELSE "exited"

\* setup_configuration(), run when main.py imports src.main.main_setup:
\* load_dotenv(), then MainConfig()
setup_configuration ==
    /\ ppc = "import_setup"
    /\ env' = load_dotenv(env, files)
    /\ main_config' = MainConfig(env', env_file(files, cwd))
    /\ ppc' = after_MainConfig(main_config')
    /\ exitCode' = IF ppc' = "exited" THEN 1 ELSE exitCode
    /\ UNCHANGED <<files, cwd, background_tasks, api_config, reload, workers>>
    /\ UNCHANGED lifeVars

\* main.py: FastAPIApplication(main_config, background_tasks), which builds
\* FastApiSetup and so FastApiSetup.get_config(): the first FastApiConfig().
\* Its ValidationError is caught nowhere on this path: the import of main.py
\* dies with a traceback and the interpreter exits with status 1.
FastAPIApplication_init ==
    /\ ppc = "import_main"
    /\ api_config' = FastApiConfig(env, env_file(files, cwd))
    /\ ppc' = IF api_config'.ok THEN "main_guard" ELSE "exited"
    /\ exitCode' = IF api_config'.ok THEN exitCode ELSE 1
    /\ UNCHANGED <<env, files, cwd, background_tasks, main_config, reload,
                   workers>>
    /\ UNCHANGED lifeVars

\* main.py: uvicorn.run(..., reload=not PRODUCTION, workers=4 if PRODUCTION else 1)
uvicorn_run ==
    /\ ppc = "main_guard"
    /\ reload' = ~truthy(main_config.PRODUCTION)
    /\ workers' = IF truthy(main_config.PRODUCTION) THEN 4 ELSE 1
    /\ ppc' = "serving"
    /\ UNCHANGED <<env, files, cwd, background_tasks, exitCode, main_config,
                   api_config>>
    /\ UNCHANGED lifeVars

(***************************************************************************)
(* The event loop: one thread, cooperative scheduling                      *)
(***************************************************************************)
\* A record on the lifecycle manager's logger. None of its three log calls
\* names a task: `task` is 0 in every record the lifespan emits.
LogRecord(msg) == [msg |-> msg, task |-> 0]

\* The thread is free for the event loop to pick its next ready callback: the
\* host and the lifespan are suspended and no task is in the middle of a step.
LoopFree ==
    /\ hpc \in {"serving", "shutdown", "done"}
    /\ lpc \notin {"spawning", "cancelling"}
    /\ \A i \in Tasks : tstate[i] # "running"

\* A slip: the coroutine object is created but never handed to the loop.
create_task_unscheduled(ts, i) == ts

\* asyncio.create_task(task.run()): the task exists and its first step is
\* queued on the loop; nothing of run() has executed.
create_task(ts, i) == [ts EXCEPT ![i] = "scheduled"]

\* A slip: the yield placed inside the loop over the tasks.
comprehension_done_early == li > 1 \/ li > K

\* The list comprehension of lifespan has gone through every registered task.
comprehension_done == li > K

\* A slip: gather called without return_exceptions.
return_exceptions_off == FALSE

\* return_exceptions=True of the gather call
return_exceptions == TRUE

\* A slip: a wait that returns as soon as one of the tasks is done.
gather_first_completed(ts, hs, re) ==
    IF hs = <<>> \/ \E k \in 1..Len(hs) : ts[hs[k]] \in Terminal
    THEN "return" ELSE "wait"

\* What `await asyncio.gather(*hs, return_exceptions=re)` does given the
\* states ts of the awaited tasks: keep waiting, return, or raise.
gather(ts, hs, re) ==
    LET S == {ts[hs[k]] : k \in 1..Len(hs)} IN
    IF re
    THEN IF S \subseteq Terminal THEN "return" ELSE "wait"
    ELSE IF "failed" \in S THEN "raise_exception"
         ELSE IF "cancelled" \in S THEN "raise_cancelled"
         ELSE IF S \subseteq Terminal THEN "return" ELSE "wait"

\* The host enters the lifespan context: lifespan runs up to its first log line.
lifespan_enter ==
    /\ ppc = "serving"
    /\ hpc = "off"
    /\ hpc' = "startup"
    /\ lpc' = "spawning"
    /\ li' = 1
    /\ log' = Append(log, LogRecord("startup"))
    /\ UNCHANGED <<hmode, task_handles>>
    /\ UNCHANGED taskVars
    /\ UNCHANGED cfgVars

\* One iteration of [asyncio.create_task(task.run()) for task in ...]
spawn ==
    /\ lpc = "spawning"
    /\ ~comprehension_done
    /\ li <= K
    /\ task_handles' = Append(task_handles, li)
    /\ tstate' = create_task(tstate, li)
    /\ ready' = IF tstate'[li] = "scheduled" THEN Append(ready, li) ELSE ready
    /\ li' = li + 1
    /\ UNCHANGED <<hpc, hmode, lpc, started, mustCancel, cancelCalls, log>>
    /\ UNCHANGED cfgVars

\* yield: the lifespan suspends and the host gets control back
lifespan_yield ==
    /\ lpc = "spawning"
    /\ comprehension_done
    /\ lpc' = "yielded"
    /\ hpc' = "started"
    /\ UNCHANGED <<hmode, li, task_handles, log>>
    /\ UNCHANGED taskVars
    /\ UNCHANGED cfgVars

\* The host reports startup complete and suspends waiting for the shutdown
\* message: from here the event loop runs the ready callbacks.
host_serve ==
    /\ hpc = "started"
    /\ hpc' = "serving"
    /\ UNCHANGED <<hmode, lpc, li, task_handles, log>>
    /\ UNCHANGED taskVars
    /\ UNCHANGED cfgVars

\* The event loop runs the step of the task at the head of the ready queue.
task_step(i) ==
    /\ LoopFree
    /\ ready # <<>>
    /\ Head(ready) = i
    /\ i \in Tasks
    /\ tstate' = [tstate EXCEPT
                    ![i] = run_step(background_tasks[i], started[i], mustCancel[i])]
    /\ started' = [started EXCEPT ![i] = started[i] \/ ~mustCancel[i]]
    /\ mustCancel' = [mustCancel EXCEPT ![i] = FALSE]
    /\ ready' = Tail(ready)
    /\ UNCHANGED <<hpc, hmode, lpc, li, task_handles, cancelCalls, log>>
    /\ UNCHANGED cfgVars

\* The timer of a task's asyncio.sleep(1) expires: its wake-up is queued.
timer_fire(i) ==
    /\ LoopFree
    /\ tstate[i] = "suspended"
    /\ tstate' = [tstate EXCEPT ![i] = "scheduled"]
    /\ ready' = Append(ready, i)
    /\ UNCHANGED <<hpc, hmode, lpc, li, task_handles, started, mustCancel,
                   cancelCalls, log>>
    /\ UNCHANGED cfgVars

\* A task whose loop never awaits keeps the thread.
busy_spin(i) ==
    /\ tstate[i] = "running"
    /\ UNCHANGED vars

\* The host leaves its wait: on the shutdown message it leaves the context
\* normally; or its wait raises an error, or is cancelled, and the exception
\* is thrown into the lifespan at its yield. The lifespan's resumption is
\* part of the host's step, queued behind what is already ready.
host_shutdown(mode) ==
    /\ hpc = "serving"
    /\ lpc = "yielded"
    /\ LoopFree
    /\ hpc' = "shutdown"
    /\ hmode' = mode
    /\ ready' = Append(ready, 0)
    /\ UNCHANGED <<lpc, li, task_handles, tstate, started, mustCancel,
                   cancelCalls, log>>
    /\ UNCHANGED cfgVars

\* The lifespan resumes at its yield.
\*   normal: logs the shutdown line and starts the cancel loop
\*   error:  `except Exception` logs the exception and re-raises
\*   cancel: CancelledError is no Exception; it propagates unlogged
lifespan_resume ==
    /\ LoopFree
    /\ ready # <<>>
    /\ Head(ready) = 0
    /\ ready' = Tail(ready)
    /\ lpc' = IF hmode = "normal" THEN "cancelling" ELSE "raised"
    /\ hpc' = IF hmode = "normal" THEN hpc ELSE "done"
    /\ li' = IF hmode = "normal" THEN 1 ELSE li
    /\ log' = IF hmode = "normal" THEN Append(log, LogRecord("shutdown"))
              ELSE IF hmode = "error" THEN Append(log, LogRecord("lifecycle_error"))
              ELSE log
    /\ UNCHANGED <<hmode, task_handles, tstate, started, mustCancel, cancelCalls>>
    /\ UNCHANGED cfgVars

\* A slip: the cancel call left out of the shutdown path.
cancel_noop(ts, mc, i) == [ts |-> ts, mc |-> mc]

\* task_handle.cancel(): nothing for a task that is done; otherwise the
\* CancelledError is delivered at the task's next step, which is queued now if
\* the task was suspended in its sleep.
cancel(ts, mc, i) ==
    IF ts[i] \in Terminal THEN [ts |-> ts, mc |-> mc]
    ELSE [ts |-> [ts EXCEPT ![i] = "scheduled"], mc |-> [mc EXCEPT ![i] = TRUE]]

\* One iteration of `for task_handle in task_handles: task_handle.cancel()`
cancel_step ==
    /\ lpc = "cancelling"
    /\ li <= Len(task_handles)
    /\ LET h == task_handles[li] IN
        /\ tstate' = cancel(tstate, mustCancel, h).ts
        /\ mustCancel' = cancel(tstate, mustCancel, h).mc
        /\ ready' = IF tstate[h] = "suspended" /\ tstate'[h] = "scheduled"
                     THEN Append(ready, h) ELSE ready
        /\ cancelCalls' = cancelCalls \cup {h}
    /\ li' = li + 1
    /\ UNCHANGED <<hpc, hmode, lpc, task_handles, started, log>>
    /\ UNCHANGED cfgVars

\* `await asyncio.gather(...)`: the lifespan suspends in the wait.
gather_start ==
    /\ lpc = "cancelling"
    /\ li > Len(task_handles)
    /\ lpc' = "gathering"
    /\ UNCHANGED <<hpc, hmode, li, task_handles, log>>
    /\ UNCHANGED taskVars
    /\ UNCHANGED cfgVars

\* The gather completes and the lifespan resumes: it returns, or (were the
\* gather to raise) goes through `except Exception` like any error.
gather_done ==
    /\ lpc = "gathering"
    /\ LoopFree
    /\ LET r == gather(tstate, task_handles, return_exceptions) IN
        /\ r # "wait"
        /\ lpc' = IF r = "return" THEN "stopped" ELSE "raised"
        /\ log' = IF r = "raise_exception"
                  THEN Append(log, LogRecord("lifecycle_error"))
                  ELSE log
    /\ hpc' = "done"
    /\ UNCHANGED <<hmode, li, task_handles>>
    /\ UNCHANGED taskVars
    /\ UNCHANGED cfgVars

\* The server process ends after a clean shutdown.
process_exit ==
    /\ ppc = "serving"
    /\ hpc = "done"
    /\ lpc = "stopped"
    /\ ppc' = "exited"
    /\ exitCode' = 0
    /\ UNCHANGED <<env, files, cwd, background_tasks, main_config, api_config,
                   reload, workers>>
    /\ UNCHANGED lifeVars

\* The steps the program takes by itself once it may.
Internal ==
    \/ setup_configuration
    \/ FastAPIApplication_init
    \/ uvicorn_run
    \/ lifespan_enter
    \/ spawn
    \/ lifespan_yield
    \/ host_serve
    \/ \E i \in Tasks : task_step(i)
    \/ lifespan_resume
    \/ cancel_step
    \/ gather_start
    \/ gather_done
    \/ process_exit

\* The steps that wait for something outside the program.
External ==
    \/ \E i \in Tasks : timer_fire(i)
    \/ \E i \in Tasks : busy_spin(i)
    \/ \E mode \in {"normal", "error", "cancel"} : host_shutdown(mode)

Next == Internal \/ External

Spec == Init /\ [][Next]_vars

\* The interpreter and the event loop always run what is runnable.
FairSpec == Spec /\ WF_vars(Internal)

\* Start-up alone, up to the call of uvicorn.run, in every environment.
ConfigNext ==
    \/ setup_configuration
    \/ FastAPIApplication_init
    \/ uvicorn_run

ConfigSpec == ConfigInit /\ [][ConfigNext]_vars

(***************************************************************************)
(* Properties                                                              *)
(***************************************************************************)
AllTerminal == \A k \in 1..Len(task_handles) : tstate[task_handles[k]] \in Terminal

\* C1: stop() calls cancel() on every handle before it starts to wait, and
\* whenever it has returned, every execution is completed, cancelled or failed,
\* whatever the tasks did before or during the shutdown.
C1_StopWaitsForAll ==
    /\ lpc \in {"gathering", "stopped"} =>
          \A k \in 1..Len(task_handles) : task_handles[k] \in cancelCalls
    /\ lpc = "stopped" => Len(task_handles) = K /\ AllTerminal

\* stop() has returned with one task that had failed and one it cancelled.
C1_Witness ==
    /\ lpc = "stopped"
    /\ \E i \in Tasks : tstate[i] = "failed"
    /\ \E i \in Tasks : tstate[i] = "cancelled"

\* C2: the step in which a task's run raises changes neither the lifespan, nor
\* the host, nor any other task; the lifespan raises only when the host threw
\* into it, and a stop() that has returned has waited for every handle even
\* though one of them failed.
C2_FailureIsolated ==
    /\ [][\A i \in Tasks :
            (tstate[i] # "failed" /\ tstate'[i] = "failed") =>
                /\ lpc' = lpc
                /\ hpc' = hpc
                /\ \A j \in Tasks \ {i} :
                      /\ tstate'[j] = tstate[j]
                      /\ mustCancel'[j] = mustCancel[j]]_vars
    /\ [](lpc = "raised" => hmode \in {"error", "cancel"})
    /\ []((lpc = "stopped" /\ \E i \in Tasks : tstate[i] = "failed") => AllTerminal)

\* The host is serving, one task has failed and another is still in its loop.
C2_Witness ==
    /\ hpc = "serving"
    /\ lpc = "yielded"
    /\ \E i \in Tasks : tstate[i] = "failed"
    /\ \E i \in Tasks : tstate[i] = "suspended" /\ started[i]

\* C3: whenever anything but the lifespan's own startup code runs, there is
\* exactly one handle per registered task, handle k for task k; after startup
\* the handle sequence never changes, and a task that ended is never restarted.
C3_HandlesFixed ==
    /\ [](hpc \notin {"off", "startup"} =>
             /\ Len(task_handles) = K
             /\ \A k \in 1..K : task_handles[k] = k /\ tstate[k] # "none")
    /\ [][lpc \notin {"idle", "spawning"} => task_handles' = task_handles]_vars
    /\ [][\A i \in Tasks : tstate[i] \in Terminal => tstate'[i] = tstate[i]]_vars

\* During the shutdown wait, with two handles, one of them of a crashed task.
C3_Witness ==
    /\ lpc = "gathering"
    /\ Len(task_handles) >= 2
    /\ \E i \in Tasks : tstate[i] = "failed"

\* C4 as claimed: when the lifespan yields to the host, every task has begun
\* executing its run body.
C4_AllRunningAtYield == hpc = "started" => \A i \in Tasks : started[i]

\* C4 as amended: when the lifespan yields to the host, all K executions exist
\* and are queued on the event loop in registration order, and none has begun
\* executing its run body.
C4_AllScheduledAtYield ==
    hpc = "started" =>
        /\ Len(task_handles) = K
        /\ ready = task_handles
        /\ \A i \in Tasks : tstate[i] = "scheduled" /\ ~started[i]

\* The lifespan has just yielded with two tasks registered.
C4_Witness == hpc = "started" /\ lpc = "yielded" /\ K >= 2

\* C5 as claimed: when stop() has returned, the lifecycle manager's log holds a
\* record for the outcome of every task.
C5_EveryOutcomeLogged ==
    lpc = "stopped" => \A i \in Tasks : \E r \in 1..Len(log) : log[r].task = i

\* The tasks that reach a suspension point and unwind on cancellation.
Conforming == \A i \in Tasks : background_tasks[i] \in {"loop", "raise", "once"}

\* C6: with conforming tasks only, a stop() that has begun eventually returns;
\* with a task that never suspends or that swallows its cancellation, stop()
\* never returns.
C6_StopConverges ==
    /\ (Conforming /\ lpc = "cancelling") ~> (lpc = "stopped")
    /\ [](~Conforming => lpc # "stopped")

\* stop() has returned after cancelling two looping tasks.
C6_Witness ==
    /\ lpc = "stopped"
    /\ K >= 2
    /\ \A i \in Tasks : background_tasks[i] = "loop" /\ tstate[i] = "cancelled"

\* The environment as load_dotenv() leaves it, and the file env_file names.
LoadedEnv == load_dotenv(env, files)
EnvFile == env_file(files, cwd)

ConfigFails == ~MainConfig(LoadedEnv, EnvFile).ok \/ ~FastApiConfig(LoadedEnv, EnvFile).ok

\* C7: when either configuration record fails validation, the process never
\* reaches uvicorn.run, the lifespan is never entered, no task is created, and
\* the process, once ended, has exit code 1.
C7_NoTaskAfterConfigFailure ==
    ConfigFails =>
        /\ ppc \in {"import_setup", "import_main", "exited"}
        /\ hpc = "off"
        /\ lpc = "idle"
        /\ \A i \in Tasks : tstate[i] = "none" /\ ~started[i]
        /\ ppc = "exited" => exitCode = 1
        /\ (main_config.loaded /\ ~main_config.ok) => ppc = "exited"
        /\ (api_config.loaded /\ ~api_config.ok) => ppc = "exited"

\* MainConfig validated, FastApiConfig did not, and the process has exited
\* with tasks registered.
C7_Witness ==
    /\ main_config.ok
    /\ api_config.loaded /\ ~api_config.ok
    /\ ppc = "exited" /\ exitCode = 1
    /\ K >= 1

\* C8: the PRODUCTION of a loaded MainConfig is a bool; it is true only for an
\* input that reads as true; for "false", "no" and the unset variable it is
\* false, and uvicorn then runs with reload on and one worker.
C8_ProductionFlag ==
    LET raw == field_input(LoadedEnv.PRODUCTION, EnvFile.PRODUCTION,
                           default_PRODUCTION)
    IN
    main_config.ok =>
        /\ main_config.PRODUCTION.t = "bool"
        /\ main_config.PRODUCTION.b =>
              lower(raw) \in {s_true, s_1, s_t, s_yes, s_y, s_on}
        /\ ((~LoadedEnv.PRODUCTION.set /\ ~EnvFile.PRODUCTION.set)
               \/ raw \in {s_false, s_no}) =>
              /\ ~truthy(main_config.PRODUCTION)
              /\ workers # 0 => reload /\ workers = 1

\* uvicorn has been started from an environment that sets PRODUCTION=false.
C8_Witness ==
    /\ env.PRODUCTION = EnvVal(s_false)
    /\ main_config.ok
    /\ ppc = "serving"
    /\ reload /\ workers = 1

\* C9 as claimed: a FASTAPI_LOG_LEVEL that names a level up to letter case is
\* accepted by both records (the other inputs being valid), each storing its
\* normalized form, which re-validates to itself.
C9_LogLevelNormalized ==
    LET raw == field_input(LoadedEnv.FASTAPI_LOG_LEVEL,
                           EnvFile.FASTAPI_LOG_LEVEL, default_FASTAPI_LOG_LEVEL)
    IN
    (lower(raw) \in valid_levels /\ dotenv_keys(EnvFile) = {}) =>
        /\ (/\ main_config.loaded
            /\ MainConfig_PRODUCTION(
                  field_input(LoadedEnv.PRODUCTION, EnvFile.PRODUCTION,
                              default_PRODUCTION)).ok
            /\ fields_validate(LoadedEnv, EnvFile, MainConfig_fields)) =>
              /\ main_config.ok
              /\ main_config.FASTAPI_LOG_LEVEL = lower(raw)
              /\ MainConfig_validate_log_level(main_config.FASTAPI_LOG_LEVEL)
                    = Ok(PyStr(main_config.FASTAPI_LOG_LEVEL))
        /\ (/\ api_config.loaded
            /\ fields_validate(LoadedEnv, EnvFile, FastApiConfig_fields)) =>
              /\ api_config.ok
              /\ api_config.FASTAPI_LOG_LEVEL = upper(raw)
              /\ FastApiConfig_FASTAPI_LOG_LEVEL(api_config.FASTAPI_LOG_LEVEL)
                    = Ok(PyStr(api_config.FASTAPI_LOG_LEVEL))

\* C10 as claimed: once the lifespan has exited, by return or by exception,
\* cancel() has been called on every handle and every execution has ended.
C10_NoTaskOutlivesLifespan ==
    lpc \in {"stopped", "raised"} =>
        \A i \in Tasks : i \in cancelCalls /\ tstate[i] \in Terminal

====
